---------------------------- MODULE Spec2Model ----------------------------
(***************************************************************************)
(* A model of the App component (src/App.tsx): the credential field and    *)
(* its localStorage copy, image intake through FileReader, and the         *)
(* analyzeImage handler with its awaited inference call.                   *)
(*                                                                         *)
(* JavaScript strings are sequences of one-character strings, so that      *)
(* trim(), includes() and JSON.parse() are computed character by           *)
(* character.                                                              *)
(***************************************************************************)
EXTENDS Integers, Sequences, FiniteSets, TLC

(***************************************************************************)
(* Bounds of the model.                                                    *)
(***************************************************************************)
\* longest credential string typed into the key field
MaxKeyLen == 2
\* most FileReader reads pending at once
MaxReaders == 2
\* most analyzeImage invocations awaiting their response at once
MaxInflight == 2

(***************************************************************************)
(* String helpers.                                                         *)
(***************************************************************************)
WhiteSpace == {" ", "\t", "\n", "\r"}

ControlChars == {"\t", "\n", "\r"}

DigitChars == {"0", "1", "2", "3", "4", "5", "6", "7", "8", "9"}

HexChars == DigitChars \cup {"a", "b", "c", "d", "e", "f", "A", "B", "C", "D", "E", "F"}

RECURSIVE TrimStart(_)
TrimStart(s) ==
  IF s # <<>> /\ Head(s) \in WhiteSpace THEN TrimStart(Tail(s)) ELSE s

RECURSIVE TrimEnd(_)
TrimEnd(s) ==
  IF s # <<>> /\ s[Len(s)] \in WhiteSpace
    THEN TrimEnd(SubSeq(s, 1, Len(s) - 1))
    ELSE s

\* String.prototype.trim
Trim(s) == TrimEnd(TrimStart(s))

\* String.prototype.includes
Includes(s, sub) ==
  \E i \in 1..(Len(s) - Len(sub) + 1) : SubSeq(s, i, i + Len(sub) - 1) = sub

\* the decimal digits of a natural number, as characters
DigitOf(d) ==
  CASE d = 0 -> "0" [] d = 1 -> "1" [] d = 2 -> "2" [] d = 3 -> "3"
    [] d = 4 -> "4" [] d = 5 -> "5" [] d = 6 -> "6" [] d = 7 -> "7"
    [] d = 8 -> "8" [] d = 9 -> "9"

RECURSIVE Decimal(_)
Decimal(n) ==
  IF n < 10 THEN <<DigitOf(n)>> ELSE Append(Decimal(n \div 10), DigitOf(n % 10))

(***************************************************************************)
(* JavaScript values, as far as JSON.parse produces them.  Every value is  *)
(* a record of the same shape: t is the type, s the characters of a string *)
(* (or the literal of a number), kv the members of an object (k the key)   *)
(* or the elements of an array (k empty), in insertion order.              *)
(***************************************************************************)
JSNull == [t |-> "null", s |-> <<>>, kv |-> <<>>]

JSUndefined == [t |-> "undefined", s |-> <<>>, kv |-> <<>>]

JSTrue == [t |-> "true", s |-> <<>>, kv |-> <<>>]

JSFalse == [t |-> "false", s |-> <<>>, kv |-> <<>>]

JSString(cs) == [t |-> "string", s |-> cs, kv |-> <<>>]

JSNumber(literal) == [t |-> "number", s |-> literal, kv |-> <<>>]

JSObject(members) == [t |-> "object", s |-> <<>>, kv |-> members]

JSArray(elements) == [t |-> "array", s |-> <<>>, kv |-> elements]

\* JavaScript truthiness (the test of `result &&`, `if (text)`, `!image`)
Truthy(v) ==
  CASE v.t \in {"null", "undefined", "false"} -> FALSE
    [] v.t = "string" -> v.s # <<>>
    [] v.t = "number" ->
         \* not zero: a digit other than 0 before any exponent
         \E i \in 1..Len(v.s) :
           /\ v.s[i] \in (DigitChars \ {"0"})
           /\ \A k \in 1..i : v.s[k] \notin {"e", "E"}
    [] OTHER -> TRUE

HasKey(members, k) == \E i \in 1..Len(members) : members[i].k = k

\* obj[k] = v: a repeated key keeps its place and takes the later value
PutMember(members, k, v) ==
  IF HasKey(members, k)
    THEN [i \in 1..Len(members) |->
            IF members[i].k = k THEN [k |-> k, v |-> v] ELSE members[i]]
    ELSE Append(members, [k |-> k, v |-> v])

(***************************************************************************)
(* JSON.parse (src/App.tsx line 86), a recursive-descent parser of the     *)
(* JSON grammar (ECMA-404).  A parse step yields                            *)
(*   [ok, val, pos, why]: the value and the index after it, or the index   *)
(* of the offending character and the reason.                              *)
(***************************************************************************)
ParseOk(v, p) == [ok |-> TRUE, val |-> v, pos |-> p, why |-> "ok"]

ParseFail(why, p) == [ok |-> FALSE, val |-> JSNull, pos |-> p, why |-> why]

RECURSIVE SkipWS(_, _)
SkipWS(s, i) ==
  IF i <= Len(s) /\ s[i] \in WhiteSpace THEN SkipWS(s, i + 1) ELSE i

RECURSIVE SkipDigits(_, _)
SkipDigits(s, i) ==
  IF i <= Len(s) /\ s[i] \in DigitChars THEN SkipDigits(s, i + 1) ELSE i

IsDigitAt(s, i) == i <= Len(s) /\ s[i] \in DigitChars

MatchAt(s, i, word) ==
  /\ i + Len(word) - 1 <= Len(s)
  /\ SubSeq(s, i, i + Len(word) - 1) = word

\* the character an escape \c stands for
Unescape(c) ==
  CASE c = "n" -> "\n" [] c = "t" -> "\t" [] c = "r" -> "\r"
    [] c = "b" -> "\\b" [] c = "f" -> "\\f"
    [] OTHER -> c

SimpleEscapes == {"\"", "\\", "/", "b", "f", "n", "r", "t"}

\* the characters of a string literal from index j on (the opening quote is
\* before j), collected in acc
RECURSIVE ParseStringFrom(_, _, _)
ParseStringFrom(s, j, acc) ==
  IF j > Len(s) THEN ParseFail("unterminated", j)
  ELSE IF s[j] = "\"" THEN ParseOk(JSString(acc), j + 1)
  ELSE IF s[j] = "\\" THEN
    IF j + 1 > Len(s) THEN ParseFail("unterminated", j + 1)
    ELSE IF s[j + 1] \in SimpleEscapes
      THEN ParseStringFrom(s, j + 2, Append(acc, Unescape(s[j + 1])))
    ELSE IF /\ s[j + 1] = "u"
            /\ j + 5 <= Len(s)
            /\ \A k \in (j + 2)..(j + 5) : s[k] \in HexChars
      \* a \uXXXX escape is kept as one character named by its code
      THEN ParseStringFrom(s, j + 6,
             Append(acc, "\\u" \o s[j + 2] \o s[j + 3] \o s[j + 4] \o s[j + 5]))
    ELSE ParseFail("escape", j + 1)
  ELSE IF s[j] \in ControlChars THEN ParseFail("control", j)
  ELSE ParseStringFrom(s, j + 1, Append(acc, s[j]))

\* number: -? (0 | [1-9][0-9]*) (. [0-9]+)? ([eE] [+-]? [0-9]+)?
\* The value keeps the literal (1.0 and 1 are told apart, which no use of
\* the result here depends upon).
ParseNumber(s, i) ==
  LET j == IF s[i] = "-" THEN i + 1 ELSE i
  IN  IF ~IsDigitAt(s, j) THEN ParseFail("minus", j)
      ELSE
        LET k == IF s[j] = "0" THEN j + 1 ELSE SkipDigits(s, j + 1)
            hasFrac == k <= Len(s) /\ s[k] = "."
            f == IF hasFrac THEN SkipDigits(s, k + 1) ELSE k
            hasExp == f <= Len(s) /\ s[f] \in {"e", "E"}
            m == IF hasExp /\ f + 1 <= Len(s) /\ s[f + 1] \in {"+", "-"}
                   THEN f + 2 ELSE f + 1
            e == IF hasExp THEN SkipDigits(s, m) ELSE f
        IN  IF hasFrac /\ ~IsDigitAt(s, k + 1) THEN ParseFail("fraction", k + 1)
            ELSE IF hasExp /\ ~IsDigitAt(s, m) THEN ParseFail("exponent", m)
            ELSE ParseOk(JSNumber(SubSeq(s, i, e - 1)), e)

RECURSIVE ParseValue(_, _)
RECURSIVE ParseMembers(_, _, _)
RECURSIVE ParseElements(_, _, _)

\* the members of an object from index j on (j is past white space), the
\* members read so far in acc
ParseMembers(s, j, acc) ==
  IF j > Len(s) THEN ParseFail("end", j)
  ELSE IF s[j] # "\"" THEN ParseFail("propname", j)
  ELSE
    LET key == ParseStringFrom(s, j + 1, <<>>)
    IN  IF ~key.ok THEN key
        ELSE
          LET c == SkipWS(s, key.pos)
          IN  IF c > Len(s) THEN ParseFail("end", c)
              ELSE IF s[c] # ":" THEN ParseFail("colon", c)
              ELSE
                LET v == ParseValue(s, c + 1)
                IN  IF ~v.ok THEN v
                    ELSE
                      LET d == SkipWS(s, v.pos)
                          members == PutMember(acc, key.val.s, v.val)
                      IN  IF d > Len(s) THEN ParseFail("end", d)
                          ELSE IF s[d] = ","
                            THEN ParseMembers(s, SkipWS(s, d + 1), members)
                          ELSE IF s[d] = "}"
                            THEN ParseOk(JSObject(members), d + 1)
                          ELSE ParseFail("commaobj", d)

\* the elements of an array from index j on, the elements read so far in acc
ParseElements(s, j, acc) ==
  LET v == ParseValue(s, j)
  IN  IF ~v.ok THEN v
      ELSE
        LET d == SkipWS(s, v.pos)
            elements == Append(acc, [k |-> <<>>, v |-> v.val])
        IN  IF d > Len(s) THEN ParseFail("end", d)
            ELSE IF s[d] = "," THEN ParseElements(s, d + 1, elements)
            ELSE IF s[d] = "]" THEN ParseOk(JSArray(elements), d + 1)
            ELSE ParseFail("commaarr", d)

ParseValue(s, i) ==
  LET j == SkipWS(s, i)
  IN  IF j > Len(s) THEN ParseFail("end", j)
      ELSE IF s[j] = "{" THEN
        LET m == SkipWS(s, j + 1)
        IN  IF m <= Len(s) /\ s[m] = "}"
              THEN ParseOk(JSObject(<<>>), m + 1)
              ELSE ParseMembers(s, m, <<>>)
      ELSE IF s[j] = "[" THEN
        LET m == SkipWS(s, j + 1)
        IN  IF m <= Len(s) /\ s[m] = "]"
              THEN ParseOk(JSArray(<<>>), m + 1)
              ELSE ParseElements(s, m, <<>>)
      ELSE IF s[j] = "\"" THEN ParseStringFrom(s, j + 1, <<>>)
      ELSE IF s[j] = "-" \/ s[j] \in DigitChars THEN ParseNumber(s, j)
      ELSE IF MatchAt(s, j, <<"t", "r", "u", "e">>) THEN ParseOk(JSTrue, j + 4)
      ELSE IF MatchAt(s, j, <<"f", "a", "l", "s", "e">>) THEN ParseOk(JSFalse, j + 5)
      ELSE IF MatchAt(s, j, <<"n", "u", "l", "l">>) THEN ParseOk(JSNull, j + 4)
      ELSE ParseFail("token", j)

\* JSON.parse(text): one value, then nothing but white space
JSONParse(text) ==
  LET v == ParseValue(text, 1)
  IN  IF ~v.ok THEN v
      ELSE
        LET e == SkipWS(text, v.pos)
        IN  IF e <= Len(text) THEN ParseFail("trailing", e) ELSE v

(***************************************************************************)
(* The message of the SyntaxError JSON.parse throws.  ECMAScript leaves it *)
(* to the engine; the two formats below are those of V8 (Chrome, Node) and *)
(* of SpiderMonkey (Firefox).  V8 quotes the source text when a value      *)
(* starts with an unexpected token and gives the position otherwise;       *)
(* SpiderMonkey gives line and column.                                     *)
(***************************************************************************)
Engines == {"V8", "SpiderMonkey"}

\* V8 shows at most this many characters of the source on each side
kMaxContextCharacters == 10

\* the number of line breaks of s before index p, plus one
LineOf(s, p) == 1 + Cardinality({i \in 1..(p - 1) : i <= Len(s) /\ s[i] = "\n"})

\* the column of index p in its line, counted from one
ColumnOf(s, p) ==
  LET breaks == {i \in 1..(p - 1) : i <= Len(s) /\ s[i] = "\n"}
      start == IF breaks = {} THEN 0
               ELSE CHOOSE i \in breaks : \A k \in breaks : k <= i
  IN  p - start

V8Words(why) ==
  CASE why = "unterminated" ->
    <<"U", "n", "t", "e", "r", "m", "i", "n", "a", "t", "e", "d", " ", "s",
      "t", "r", "i", "n", "g">>
    [] why = "escape" ->
    <<"B", "a", "d", " ", "e", "s", "c", "a", "p", "e", "d", " ", "c", "h",
      "a", "r", "a", "c", "t", "e", "r">>
    [] why = "control" ->
    <<"B", "a", "d", " ", "c", "o", "n", "t", "r", "o", "l", " ", "c", "h",
      "a", "r", "a", "c", "t", "e", "r", " ", "i", "n", " ", "s", "t", "r",
      "i", "n", "g", " ", "l", "i", "t", "e", "r", "a", "l">>
    [] why = "minus" ->
    <<"N", "o", " ", "n", "u", "m", "b", "e", "r", " ", "a", "f", "t", "e",
      "r", " ", "m", "i", "n", "u", "s", " ", "s", "i", "g", "n">>
    [] why = "fraction" ->
    <<"U", "n", "t", "e", "r", "m", "i", "n", "a", "t", "e", "d", " ", "f",
      "r", "a", "c", "t", "i", "o", "n", "a", "l", " ", "n", "u", "m", "b",
      "e", "r">>
    [] why = "exponent" ->
    <<"E", "x", "p", "o", "n", "e", "n", "t", " ", "p", "a", "r", "t", " ",
      "i", "s", " ", "m", "i", "s", "s", "i", "n", "g", " ", "a", " ", "n",
      "u", "m", "b", "e", "r">>
    [] why = "propname" ->
    <<"E", "x", "p", "e", "c", "t", "e", "d", " ", "p", "r", "o", "p", "e",
      "r", "t", "y", " ", "n", "a", "m", "e", " ", "o", "r", " ", "'", "}",
      "'">>
    [] why = "colon" ->
    <<"E", "x", "p", "e", "c", "t", "e", "d", " ", "'", ":", "'", " ", "a",
      "f", "t", "e", "r", " ", "p", "r", "o", "p", "e", "r", "t", "y", " ",
      "n", "a", "m", "e">>
    [] why = "commaobj" ->
    <<"E", "x", "p", "e", "c", "t", "e", "d", " ", "'", ",", "'", " ", "o",
      "r", " ", "'", "}", "'", " ", "a", "f", "t", "e", "r", " ", "p", "r",
      "o", "p", "e", "r", "t", "y", " ", "v", "a", "l", "u", "e">>
    [] why = "commaarr" ->
    <<"E", "x", "p", "e", "c", "t", "e", "d", " ", "'", ",", "'", " ", "o",
      "r", " ", "'", "]", "'", " ", "a", "f", "t", "e", "r", " ", "a", "r",
      "r", "a", "y", " ", "e", "l", "e", "m", "e", "n", "t">>
    [] why = "trailing" ->
    <<"U", "n", "e", "x", "p", "e", "c", "t", "e", "d", " ", "n", "o", "n",
      "-", "w", "h", "i", "t", "e", "s", "p", "a", "c", "e", " ", "c", "h",
      "a", "r", "a", "c", "t", "e", "r", " ", "a", "f", "t", "e", "r", " ",
      "J", "S", "O", "N">>

V8Message(text, fail) ==
  LET p == fail.pos
      n == Len(text)
  IN  IF p > n THEN
    <<"U", "n", "e", "x", "p", "e", "c", "t", "e", "d", " ", "e", "n", "d",
      " ", "o", "f", " ", "J", "S", "O", "N", " ", "i", "n", "p", "u", "t">>
      ELSE IF fail.why = "token" THEN
        \* the offending character, then the source or a window around it
        LET short == n < 2 * kMaxContextCharacters + 1
            from == IF short \/ p - 1 < kMaxContextCharacters
                      THEN 1 ELSE p - kMaxContextCharacters
            to == IF short \/ p - 1 >= n - kMaxContextCharacters
                    THEN n ELSE p - 1 + kMaxContextCharacters
        IN
    <<"U", "n", "e", "x", "p", "e", "c", "t", "e", "d", " ", "t", "o", "k",
      "e", "n", " ", "'">> \o <<text[p]>> \o
    <<"'", ",", " ">>
              \o (IF from > 1 THEN <<".", ".", ".">> ELSE <<>>)
              \o <<"\"">> \o SubSeq(text, from, to) \o <<"\"">>
              \o (IF to < n THEN <<".", ".", ".">> ELSE <<>>)
              \o
    <<" ", "i", "s", " ", "n", "o", "t", " ", "v", "a", "l", "i", "d", " ",
      "J", "S", "O", "N">>
      ELSE
        LET structural == fail.why \in
              {"propname", "colon", "commaobj", "commaarr", "trailing"}
            words == IF structural /\ (text[p] = "-" \/ text[p] \in DigitChars)
                       THEN
    <<"U", "n", "e", "x", "p", "e", "c", "t", "e", "d", " ", "n", "u", "m",
      "b", "e", "r">>
                     ELSE IF structural /\ text[p] = "\""
                       THEN
    <<"U", "n", "e", "x", "p", "e", "c", "t", "e", "d", " ", "s", "t", "r",
      "i", "n", "g">>
                     ELSE V8Words(fail.why)
        IN  words \o
    <<" ", "i", "n", " ", "J", "S", "O", "N", " ", "a", "t", " ", "p", "o",
      "s", "i", "t", "i", "o", "n", " ">> \o Decimal(p - 1)
              \o <<" ", "(", "l", "i", "n", "e", " ">> \o Decimal(LineOf(text, p))
              \o <<" ", "c", "o", "l", "u", "m", "n", " ">> \o Decimal(ColumnOf(text, p)) \o <<")">>

SpiderMonkeyWords(text, fail) ==
  IF fail.pos > Len(text) /\ fail.why # "unterminated"
    THEN
    <<"u", "n", "e", "x", "p", "e", "c", "t", "e", "d", " ", "e", "n", "d",
      " ", "o", "f", " ", "d", "a", "t", "a">>
  ELSE CASE fail.why = "unterminated" ->
    <<"u", "n", "t", "e", "r", "m", "i", "n", "a", "t", "e", "d", " ", "s",
      "t", "r", "i", "n", "g">>
         [] fail.why = "escape" ->
    <<"b", "a", "d", " ", "e", "s", "c", "a", "p", "e", "d", " ", "c", "h",
      "a", "r", "a", "c", "t", "e", "r">>
         [] fail.why = "control" ->
    <<"b", "a", "d", " ", "c", "o", "n", "t", "r", "o", "l", " ", "c", "h",
      "a", "r", "a", "c", "t", "e", "r", " ", "i", "n", " ", "s", "t", "r",
      "i", "n", "g", " ", "l", "i", "t", "e", "r", "a", "l">>
         [] OTHER ->
    <<"u", "n", "e", "x", "p", "e", "c", "t", "e", "d", " ", "c", "h", "a",
      "r", "a", "c", "t", "e", "r">>

SpiderMonkeyMessage(text, fail) ==
  <<"J", "S", "O", "N", ".", "p", "a", "r", "s", "e", ":", " ">> \o SpiderMonkeyWords(text, fail)
    \o <<" ", "a", "t", " ", "l", "i", "n", "e", " ">> \o Decimal(LineOf(text, fail.pos))
    \o <<" ", "c", "o", "l", "u", "m", "n", " ">> \o Decimal(ColumnOf(text, fail.pos))
    \o
    <<" ", "o", "f", " ", "t", "h", "e", " ", "J", "S", "O", "N", " ", "d",
      "a", "t", "a">>

SyntaxErrorMessage(engine, text, fail) ==
  IF engine = "V8" THEN V8Message(text, fail) ELSE SpiderMonkeyMessage(text, fail)

(***************************************************************************)
(* A thrown value, as the catch clause reads it: err.message is a string   *)
(* or undefined (a value thrown without a message).                        *)
(***************************************************************************)
ErrorOf(message) == [message |-> JSString(message)]

NoMessageError == [message |-> JSUndefined]

\* new Error("No response received from the model.")
EmptyResponseError ==
  ErrorOf(
    <<"N", "o", " ", "r", "e", "s", "p", "o", "n", "s", "e", " ", "r", "e",
      "c", "e", "i", "v", "e", "d", " ", "f", "r", "o", "m", " ", "t", "h",
      "e", " ", "m", "o", "d", "e", "l", ".">>)

\* setError(...) of the 403 / API_KEY_INVALID branch
InvalidKeyMessage ==
  JSString(
    <<"I", "n", "v", "a", "l", "i", "d", " ", "A", "P", "I", " ", "K", "e",
      "y", ".", " ", "P", "l", "e", "a", "s", "e", " ", "c", "h", "e", "c",
      "k", " ", "y", "o", "u", "r", " ", "k", "e", "y", " ", "a", "n", "d",
      " ", "t", "r", "y", " ", "a", "g", "a", "i", "n", ".">>)

\* setError(...) of the other branch
GenericMessage ==
  JSString(
    <<"A", "n", " ", "e", "r", "r", "o", "r", " ", "o", "c", "c", "u", "r",
      "r", "e", "d", " ", "d", "u", "r", "i", "n", "g", " ", "a", "n", "a",
      "l", "y", "s", "i", "s", ".", " ", "P", "l", "e", "a", "s", "e", " ",
      "e", "n", "s", "u", "r", "e", " ", "y", "o", "u", "r", " ", "A", "P",
      "I", " ", "K", "e", "y", " ", "i", "s", " ", "v", "a", "l", "i", "d",
      " ", "a", "n", "d", " ", "y", "o", "u", " ", "h", "a", "v", "e", " ",
      "q", "u", "o", "t", "a", ".">>)

Marker403 == <<"4", "0", "3">>

MarkerInvalidKey ==
    <<"A", "P", "I", "_", "K", "E", "Y", "_", "I", "N", "V", "A", "L", "I",
      "D">>

\* a variant of IsKeyError that looks for the 403 marker alone
IsKeyError_Only403(err) ==
  /\ err.message.t = "string"
  /\ Includes(err.message.s, Marker403)

\* err.message?.includes('403') || err.message?.includes('API_KEY_INVALID')
IsKeyError(err) ==
  /\ err.message.t = "string"
  /\ \/ Includes(err.message.s, Marker403)
     \/ Includes(err.message.s, MarkerInvalidKey)

\* the catch clause: the message setError is given
CatchMessage(err) == IF IsKeyError(err) THEN InvalidKeyMessage ELSE GenericMessage

(***************************************************************************)
(* Inputs: what the user types and picks, and what the model answers.      *)
(***************************************************************************)
StringsUpTo(chars, n) == UNION {[1..m -> chars] : m \in 0..n}

\* characters typed into the credential field: a key character and a blank
KeyChars == {"k", " "}

Keys == StringsUpTo(KeyChars, MaxKeyLen)

\* the files the picker can hand over; NoFile is e.target.files?.[0] undefined
Files == {"a.png", "b.jpg"}

NoFile == "none"

\* reader.result of a successful readAsDataURL
DataURLOf(file) ==
  IF file = "a.png" THEN
    <<"d", "a", "t", "a", ":", "i", "m", "a", "g", "e", "/", "p", "n", "g",
      ";", "b", "a", "s", "e", "6", "4", ",", "Q", "U", "J", "D">>
  ELSE
    <<"d", "a", "t", "a", ":", "i", "m", "a", "g", "e", "/", "j", "p", "e",
      "g", ";", "b", "a", "s", "e", "6", "4", ",", "R", "E", "V", "G">>

\* image.split(',')[1]: what lies between the first comma and the next
SplitComma1(s) ==
  LET commas == {i \in 1..Len(s) : s[i] = ","}
  IN  IF commas = {} THEN JSUndefined
      ELSE
        LET first == CHOOSE i \in commas : \A k \in commas : i <= k
            later == {i \in commas : i > first}
            stop == IF later = {} THEN Len(s) + 1
                    ELSE CHOOSE i \in later : \A k \in later : i <= k
        IN  JSString(SubSeq(s, first + 1, stop - 1))

\* the JSON text of a string (what JSON.stringify writes)
RECURSIVE JSONQuoteChars(_)
JSONQuoteChars(s) ==
  IF s = <<>> THEN <<>>
  ELSE (CASE Head(s) = "\"" -> <<"\\", "\"">>
          [] Head(s) = "\\" -> <<"\\", "\\">>
          [] Head(s) = "\n" -> <<"\\", "n">>
          [] Head(s) = "\t" -> <<"\\", "t">>
          [] Head(s) = "\r" -> <<"\\", "r">>
          [] OTHER -> <<Head(s)>>) \o JSONQuoteChars(Tail(s))

JSONQuote(s) == <<"\"">> \o JSONQuoteChars(s) \o <<"\"">>

\* the text {"description":"A","prompt":"B"} for the strings A and B
PayloadOf(A, B) ==

    <<"{", "\"", "d", "e", "s", "c", "r", "i", "p", "t", "i", "o", "n",
      "\"", ":">> \o JSONQuote(A) \o
    <<",", "\"", "p", "r", "o", "m", "p", "t", "\"", ":">> \o JSONQuote(B) \o <<"}">>

\* the object {description: A, prompt: B}
ResultOf(A, B) ==
  JSObject(<<[k |-> <<"d", "e", "s", "c", "r", "i", "p", "t", "i", "o", "n">>, v |-> JSString(A)],
             [k |-> <<"p", "r", "o", "m", "p", "t">>, v |-> JSString(B)]>>)

\* descriptions and prompts the model answers with: the empty string, and
\* one with a letter, a quote, a backslash and a line break
Strs == {<<>>, <<"A", "\"", "\\", "\n">>}

\* texts that are not the two-field object
NotJSONTexts == {<<"E", "r", "r", "o", "r", " ", "4", "0", "3">>,
    <<"{", "\"", "d", "e", "s", "c", "r", "i", "p", "t", "i", "o", "n",
      "\"", ":">>, <<" ">>}

OtherJSONTexts == {
    <<"{", "\"", "d", "e", "s", "c", "r", "i", "p", "t", "i", "o", "n",
      "\"", ":", "\"", "A", "\"", "}">>,
    <<"4", "0", "3">>,
    <<"n", "u", "l", "l">>}

\* response.text: undefined, empty, or a text
Texts ==
  {JSUndefined, JSString(<<>>)}
    \cup {JSString(PayloadOf(A, B)) : A \in Strs, B \in Strs}
    \cup {JSString(t) : t \in NotJSONTexts \cup OtherJSONTexts}

\* what a rejected generateContent call throws: an error that carries the
\* 403 marker or the API_KEY_INVALID marker, or another one
KeyRejections ==
  {ErrorOf(
    <<"g", "o", "t", " ", "s", "t", "a", "t", "u", "s", ":", " ", "4", "0",
      "3", " ", "F", "o", "r", "b", "i", "d", "d", "e", "n">>),
   ErrorOf(
    <<"A", "P", "I", " ", "k", "e", "y", " ", "n", "o", "t", " ", "v", "a",
      "l", "i", "d", " ", "[", "A", "P", "I", "_", "K", "E", "Y", "_", "I",
      "N", "V", "A", "L", "I", "D", "]">>)}

OtherRejections ==
  {ErrorOf(
    <<"F", "a", "i", "l", "e", "d", " ", "t", "o", " ", "f", "e", "t", "c",
      "h">>),
   NoMessageError}

Rejections == KeyRejections \cup OtherRejections

(***************************************************************************)
(* State.                                                                  *)
(***************************************************************************)
VARIABLES
  apiKey,    \* useState<string>(''): the credential, a string
  storage,   \* localStorage['eman_ai_describer_apikey']: a string or null
  image,     \* useState<string | null>: the data URL or null
  loading,   \* useState(false)
  result,    \* useState<{description, prompt} | null>: what JSON.parse gave
  error,     \* useState<string | null>
  readers,   \* FileReaders still reading: for each file, how many
  inflight,  \* analyzeImage invocations suspended at the await, in order of
             \* dispatch: the image data sent, and the result at the time
  last       \* the handler that ran last: whether it called alert(), and
             \* which kind of answer it was given

vars == <<apiKey, storage, image, loading, result, error, readers, inflight, last>>

Ran(op) == [op |-> op, alert |-> FALSE, got |-> "-"]

\* the kind of a response text, by the set it is drawn from
TextKind(text) ==
  IF text \in {JSUndefined, JSString(<<>>)} THEN "notext"
  ELSE IF text.s \in NotJSONTexts THEN "notjson"
  ELSE IF text.s \in OtherJSONTexts THEN "json"
  ELSE "pair"

\* the kind of a rejection, by the set it is drawn from
ErrorKind(err) == IF err \in KeyRejections THEN "keyerror" ELSE "othererror"

PendingReads == LET Sum[S \in SUBSET Files] ==
                      IF S = {} THEN 0
                      ELSE LET f == CHOOSE x \in S : TRUE
                           IN  readers[f] + Sum[S \ {f}]
                IN  Sum[Files]

RemoveAt(s, i) == SubSeq(s, 1, i - 1) \o SubSeq(s, i + 1, Len(s))

(***************************************************************************)
(* The component.                                                          *)
(***************************************************************************)
\* localStorage.getItem, then `if (savedKey) setApiKey(savedKey)`
LoadedKey(stored) == IF Truthy(stored) THEN stored.s ELSE <<>>

\* after construction in a fresh browser profile (nothing stored yet): the
\* useState initial values, then the mount effect
Init ==
  /\ storage = JSNull
  /\ apiKey = LoadedKey(storage)
  /\ image = JSNull
  /\ loading = FALSE
  /\ result = JSNull
  /\ error = JSNull
  /\ readers = [f \in Files |-> 0]
  /\ inflight = <<>>
  /\ last = Ran("mount")

\* the component is mounted afresh (a restart): its state starts over, the
\* reads and calls of the old instance no longer reach it, the store stays
Mount ==
  /\ apiKey' = LoadedKey(storage)
  /\ image' = JSNull
  /\ loading' = FALSE
  /\ result' = JSNull
  /\ error' = JSNull
  /\ readers' = [f \in Files |-> 0]
  /\ inflight' = <<>>
  /\ last' = Ran("mount")
  /\ UNCHANGED storage

\* a variant of saveApiKey that stores the trimmed key
saveApiKey_StoresTrimmed(key) ==
  /\ apiKey' = key
  /\ storage' = JSString(Trim(key))
  /\ last' = Ran("saveApiKey")
  /\ UNCHANGED <<image, loading, result, error, readers, inflight>>

saveApiKey(key) ==
  /\ apiKey' = key
  /\ storage' = JSString(key)
  /\ last' = Ran("saveApiKey")
  /\ UNCHANGED <<image, loading, result, error, readers, inflight>>

handleImageChange(file) ==
  /\ IF file # NoFile
       THEN /\ PendingReads < MaxReaders
            /\ readers' = [readers EXCEPT ![file] = @ + 1]
       ELSE UNCHANGED readers
  /\ last' = Ran("handleImageChange")
  /\ UNCHANGED <<apiKey, storage, image, loading, result, error, inflight>>

\* a variant of onloadend that leaves the error in place
onloadend_KeepsError(file, ok) ==
  /\ readers[file] > 0
  /\ readers' = [readers EXCEPT ![file] = @ - 1]
  /\ image' = IF ok THEN JSString(DataURLOf(file)) ELSE JSNull
  /\ result' = JSNull
  /\ last' = Ran("onloadend")
  /\ UNCHANGED <<apiKey, storage, loading, error, inflight>>

\* reader.onloadend: it fires when the read succeeded (reader.result is the
\* data URL) and when it failed (reader.result is null)
onloadend(file, ok) ==
  /\ readers[file] > 0
  /\ readers' = [readers EXCEPT ![file] = @ - 1]
  /\ image' = IF ok THEN JSString(DataURLOf(file)) ELSE JSNull
  /\ result' = JSNull
  /\ error' = JSNull
  /\ last' = Ran("onloadend")
  /\ UNCHANGED <<apiKey, storage, loading, inflight>>

\* what the render shows: the spinner while loading, else the error banner,
\* else the result panel, else the preview or the empty drop zone
PresentationState ==
  IF loading THEN "busy"
  ELSE IF Truthy(error) THEN "failed"
  ELSE IF Truthy(result) THEN "success"
  ELSE IF Truthy(image) THEN "idle-has-image"
  ELSE "idle-no-image"

\* a variant of ButtonDisabled that forgets the busy flag
ButtonDisabled_IgnoresLoading == ~Truthy(image)

\* a variant of ButtonDisabled that stays disabled while an error is shown
ButtonDisabled_WhileError == ~Truthy(image) \/ loading \/ Truthy(error)

\* disabled={!image || loading}
ButtonDisabled == ~Truthy(image) \/ loading

\* a variant of Dispatch that also clears the result when the call starts
Dispatch_ClearsResult(img) ==
  /\ Len(inflight) < MaxInflight
  /\ loading' = TRUE
  /\ error' = JSNull
  /\ result' = JSNull
  /\ inflight' = Append(inflight, [data |-> SplitComma1(img.s), before |-> result])
  /\ last' = Ran("analyzeImage")
  /\ UNCHANGED <<apiKey, storage, image, readers>>

\* what analyzeImage does once both checks have passed
Dispatch(img) ==
  /\ Len(inflight) < MaxInflight
  /\ loading' = TRUE
  /\ error' = JSNull
  /\ inflight' = Append(inflight, [data |-> SplitComma1(img.s), before |-> result])
  /\ last' = Ran("analyzeImage")
  /\ UNCHANGED <<apiKey, storage, image, result, readers>>

\* a variant of analyzeImage that tests the key without trimming it
analyzeImage_NoTrim ==
  IF apiKey = <<>> THEN
    /\ last' = [Ran("analyzeImage") EXCEPT !.alert = TRUE]
    /\ UNCHANGED <<apiKey, storage, image, loading, result, error, readers, inflight>>
  ELSE IF ~Truthy(image) THEN
    /\ last' = Ran("analyzeImage")
    /\ UNCHANGED <<apiKey, storage, image, loading, result, error, readers, inflight>>
  ELSE Dispatch(image)

\* a variant of analyzeImage without the `if (!image) return`
\* (image.split then throws inside the try block, and the catch clause runs)
analyzeImage_NoImageCheck ==
  IF Trim(apiKey) = <<>> THEN
    /\ last' = [Ran("analyzeImage") EXCEPT !.alert = TRUE]
    /\ UNCHANGED <<apiKey, storage, image, loading, result, error, readers, inflight>>
  ELSE IF ~Truthy(image) THEN
    /\ error' = GenericMessage
    /\ loading' = FALSE
    /\ last' = Ran("analyzeImage")
    /\ UNCHANGED <<apiKey, storage, image, result, readers, inflight>>
  ELSE Dispatch(image)

\* analyzeImage up to its await
analyzeImage ==
  IF Trim(apiKey) = <<>> THEN
    /\ last' = [Ran("analyzeImage") EXCEPT !.alert = TRUE]
    /\ UNCHANGED <<apiKey, storage, image, loading, result, error, readers, inflight>>
  ELSE IF ~Truthy(image) THEN
    /\ last' = Ran("analyzeImage")
    /\ UNCHANGED <<apiKey, storage, image, loading, result, error, readers, inflight>>
  ELSE Dispatch(image)

\* a click on the analyze button
ClickAnalyze ==
  /\ ~ButtonDisabled
  /\ analyzeImage

\* a variant of TryResponse that stores the text as it came
TryResponse_StoresText(text, engine) ==
  IF Truthy(text)
    THEN [threw |-> FALSE, value |-> text, err |-> NoMessageError]
    ELSE [threw |-> TRUE, value |-> JSNull, err |-> EmptyResponseError]

\* what the try block does with the response: the parsed value to store, or
\* the error it throws
TryResponse(text, engine) ==
  IF Truthy(text) THEN
    LET parsed == JSONParse(text.s)
    IN  IF parsed.ok
          THEN [threw |-> FALSE, value |-> parsed.val, err |-> NoMessageError]
          ELSE [threw |-> TRUE, value |-> JSNull,
                err |-> ErrorOf(SyntaxErrorMessage(engine, text.s, parsed))]
  ELSE [threw |-> TRUE, value |-> JSNull, err |-> EmptyResponseError]

\* a variant of Resolve with setLoading(false) at the end of the try block
\* instead of in a finally clause
Resolve_NoFinally(i, text, engine) ==
  /\ i \in 1..Len(inflight)
  /\ LET r == TryResponse(text, engine)
     IN  IF r.threw
           THEN error' = CatchMessage(r.err) /\ UNCHANGED <<result, loading>>
           ELSE result' = r.value /\ loading' = FALSE /\ UNCHANGED error
  /\ inflight' = RemoveAt(inflight, i)
  /\ last' = [Ran("resolved") EXCEPT !.got = TextKind(text)]
  /\ UNCHANGED <<apiKey, storage, image, readers>>

\* the await returns: invocation i goes on with the response text
Resolve(i, text, engine) ==
  /\ i \in 1..Len(inflight)
  /\ LET r == TryResponse(text, engine)
     IN  IF r.threw
           THEN error' = CatchMessage(r.err) /\ UNCHANGED result
           ELSE result' = r.value /\ UNCHANGED error
  /\ loading' = FALSE
  /\ inflight' = RemoveAt(inflight, i)
  /\ last' = [Ran("resolved") EXCEPT !.got = TextKind(text)]
  /\ UNCHANGED <<apiKey, storage, image, readers>>

\* a variant of Reject without the finally clause
Reject_KeepsLoading(i, err) ==
  /\ i \in 1..Len(inflight)
  /\ error' = CatchMessage(err)
  /\ inflight' = RemoveAt(inflight, i)
  /\ last' = [Ran("rejected") EXCEPT !.got = ErrorKind(err)]
  /\ UNCHANGED <<apiKey, storage, image, loading, result, readers>>

\* the await throws: invocation i goes on in the catch clause
Reject(i, err) ==
  /\ i \in 1..Len(inflight)
  /\ error' = CatchMessage(err)
  /\ loading' = FALSE
  /\ inflight' = RemoveAt(inflight, i)
  /\ last' = [Ran("rejected") EXCEPT !.got = ErrorKind(err)]
  /\ UNCHANGED <<apiKey, storage, image, result, readers>>

Next ==
  \/ Mount
  \/ \E key \in Keys : saveApiKey(key)
  \/ \E file \in Files \cup {NoFile} : handleImageChange(file)
  \/ \E file \in Files, ok \in BOOLEAN : onloadend(file, ok)
  \/ ClickAnalyze
  \/ \E i \in 1..MaxInflight, text \in Texts, engine \in Engines : Resolve(i, text, engine)
  \/ \E i \in 1..MaxInflight, err \in Rejections : Reject(i, err)

Spec == Init /\ [][Next]_vars

\* the three ways a call that came back can end: no text, a text that is no
\* JSON, the two-field object
SettleTexts ==
  {JSUndefined,
   JSString(<<"E", "r", "r", "o", "r", " ", "4", "0", "3">>),
   JSString(PayloadOf(<<>>, <<>>))}

\* the awaited call comes back, one way or the other
Settle ==
  \/ \E i \in 1..MaxInflight, text \in SettleTexts, engine \in Engines :
        Resolve(i, text, engine)
  \/ \E i \in 1..MaxInflight, err \in Rejections : Reject(i, err)

NextFair ==
  \/ Mount
  \/ \E key \in Keys : saveApiKey(key)
  \/ \E file \in Files \cup {NoFile} : handleImageChange(file)
  \/ \E file \in Files, ok \in BOOLEAN : onloadend(file, ok)
  \/ ClickAnalyze
  \/ Settle

\* every dispatched call resolves or rejects in the end: the promise of
\* generateContent is settled by the event loop, whatever the user does
SpecFair == Init /\ [][NextFair]_vars /\ WF_vars(Settle)

\* the handler is also called directly, whatever the state of its button
\* (what a unit test of the handler does); one file, one answer of each kind
InvokeFiles == {"a.png"}

InvokeTexts == {JSUndefined, JSString(PayloadOf(<<>>, <<>>))}

InvokeRejections == {ErrorOf(
    <<"g", "o", "t", " ", "s", "t", "a", "t", "u", "s", ":", " ", "4", "0",
      "3", " ", "F", "o", "r", "b", "i", "d", "d", "e", "n">>)}

NextInvoke ==
  \/ Mount
  \/ \E key \in Keys : saveApiKey(key)
  \/ \E file \in InvokeFiles \cup {NoFile} : handleImageChange(file)
  \/ \E file \in InvokeFiles, ok \in BOOLEAN : onloadend(file, ok)
  \/ analyzeImage
  \/ \E i \in 1..MaxInflight, text \in InvokeTexts : Resolve(i, text, "V8")
  \/ \E i \in 1..MaxInflight, err \in InvokeRejections : Reject(i, err)

SpecInvoke == Init /\ [][NextInvoke]_vars

(***************************************************************************)
(* The claims.                                                             *)
(***************************************************************************)
\* the state of the component apart from the record of the last handler
state == <<apiKey, storage, image, loading, result, error, readers, inflight>>

\* C1: in the state right after a file read completes (onloadend), result
\* and error are both absent.
C1_ReadClearsOutput ==
  last.op = "onloadend" => (result = JSNull /\ error = JSNull)

\* a read completed while a re-analysis was in flight, and cleared the
\* result that was there when the call was made
C1_Witness ==
  /\ last.op = "onloadend"
  /\ Len(inflight) = 1
  /\ inflight[1].before # JSNull
  /\ result = JSNull
  /\ error = JSNull

\* C2: never more than one inference call in flight, and while loading the
\* analyze button cannot be clicked.
C2_AtMostOneCall ==
  /\ Len(inflight) <= 1
  /\ loading => ~ENABLED ClickAnalyze

\* a call is in flight with an image and a key that would pass both checks
C2_Witness ==
  /\ loading
  /\ Len(inflight) = 1
  /\ Truthy(image)
  /\ Trim(apiKey) # <<>>

\* C3: when the response text is {"description":"A","prompt":"B"}, the
\* step that completes the invocation leaves result = {description: A,
\* prompt: B}, error absent and loading false, for all A and B.
C3_SuccessStoresResult ==
  [][(last'.op = "resolved" /\ last'.got = "pair") =>
       \A A \in Strs, B \in Strs, e \in Engines, i \in 1..Len(inflight) :
         Resolve(i, JSString(PayloadOf(A, B)), e) =>
           /\ result' = ResultOf(A, B)
           /\ error' = JSNull
           /\ loading' = FALSE]_vars

\* an answer whose description holds a quote, a backslash and a line break
\* has been stored
C3_Witness ==
  /\ last.op = "resolved"
  /\ last.got = "pair"
  /\ result = ResultOf(<<"A", "\"", "\\", "\n">>, <<>>)
  /\ error = JSNull
  /\ ~loading

C5_AsStated ==
  [][(last'.op = "resolved" /\ last'.got = "notjson") =>
       (error' = GenericMessage /\ loading' = FALSE)]_vars

\* C6: when the response has no text or an empty text, the completing step
\* leaves error = the generic message, result as it was, and loading false.
C6_EmptyResponseFails ==
  [][(last'.op = "resolved" /\ last'.got = "notext") =>
       /\ error' = GenericMessage
       /\ result' = result
       /\ loading' = FALSE]_vars

\* an empty answer to a re-analysis: the generic message, the earlier
\* result still there
C6_Witness ==
  /\ last.op = "resolved"
  /\ last.got = "notext"
  /\ error = GenericMessage
  /\ result # JSNull
  /\ ~loading

\* C7: analyzeImage run with an empty or blank credential calls alert() and
\* changes nothing: no call is dispatched, and loading, error, result and
\* image keep their values.
C7_BlankKeyAlertsOnly ==
  [][(last'.op = "analyzeImage" /\ Trim(apiKey) = <<>>) =>
       (last'.alert /\ UNCHANGED state)]_vars

\* the alert was raised for a blank (not empty) key, with an image, a
\* result and a call in flight
C7_Witness ==
  /\ last.op = "analyzeImage"
  /\ last.alert
  /\ apiKey = <<" ">>
  /\ Truthy(image)
  /\ result # JSNull
  /\ loading

\* C8 as stated: analyzeImage run with no image changes nothing and shows no
\* notice, whatever the credential.
C8_AsStated ==
  [][(last'.op = "analyzeImage" /\ ~Truthy(image)) =>
       (UNCHANGED state /\ ~last'.alert)]_vars

\* C8 amended: analyzeImage run with no image changes nothing and dispatches
\* no call, whatever the credential; it shows no notice when the credential
\* is not blank, and the missing-key alert when it is (the key is checked
\* first).
C8_NoImageNoEffect ==
  [][(last'.op = "analyzeImage" /\ ~Truthy(image)) =>
       /\ UNCHANGED state
       /\ last'.alert <=> (Trim(apiKey) = <<>>)]_vars

\* the handler ran with a key and no image: no alert, nothing in flight
C8_Witness ==
  /\ last.op = "analyzeImage"
  /\ ~last.alert
  /\ ~Truthy(image)
  /\ Trim(apiKey) # <<>>
  /\ inflight = <<>>
  /\ ~loading

\* C9: saveApiKey(X) leaves the credential and the stored value equal to X;
\* nothing else writes the store; a mount sets the credential to the stored
\* value (the last X saved).
C9_CredentialRoundTrip ==
  [][/\ \A X \in Keys : saveApiKey(X) => (apiKey' = X /\ storage' = JSString(X))
     /\ storage' # storage => last'.op = "saveApiKey"
     /\ last'.op = "mount" =>
          apiKey' = (IF storage = JSNull THEN <<>> ELSE storage.s)]_vars

\* a blank key was saved and the component mounted again: the field holds it
C9_Witness ==
  /\ last.op = "mount"
  /\ apiKey = <<" ">>
  /\ storage = JSString(<<" ">>)

\* C10: loading is true exactly while a call is in flight, and false right
\* after a call completed, by its success path or by its failure path.
C10_BusyOnlyWhileOutstanding ==
  /\ loading <=> (Len(inflight) > 0)
  /\ last.op \in {"resolved", "rejected"} => ~loading

\* a call has just failed and the busy flag is down
C10_Witness ==
  /\ last.op = "rejected"
  /\ ~loading
  /\ inflight = <<>>
  /\ error # JSNull

\* C11: when every call comes back, a state with loading true is followed
\* by one with loading false in which, if an image is there, the button is
\* enabled and, if the credential is not blank either, a click dispatches
\* a call again.
C11_BusyClears ==
  loading ~>
    /\ ~loading
    /\ Truthy(image) => ~ButtonDisabled
    /\ (Truthy(image) /\ Trim(apiKey) # <<>>) => ENABLED (ClickAnalyze /\ loading')

\* a call has failed, the error is shown, and the next click would dispatch
C11_Witness ==
  /\ last.op \in {"resolved", "rejected"}
  /\ error # JSNull
  /\ ~loading
  /\ Truthy(image)
  /\ Trim(apiKey) # <<>>
  /\ ENABLED (ClickAnalyze /\ loading')

\* C12: in every reachable state result is null or an object of exactly the
\* two members description and prompt, both strings (the type the component
\* declares for it).
C12_AsStated ==
  \/ result = JSNull
  \/ /\ result.t = "object"
     /\ Len(result.kv) = 2
     /\ \A k \in {<<"d", "e", "s", "c", "r", "i", "p", "t", "i", "o", "n">>,
                  <<"p", "r", "o", "m", "p", "t">>} :
          \E i \in 1..2 : result.kv[i].k = k /\ result.kv[i].v.t = "string"

\* C13: a result or an error that is shown comes from a call made on the
\* image that is shown: a call that comes back and writes one while an image
\* is shown was dispatched with the data of that image, and a step that
\* replaces the image leaves neither behind.
C13_AsStated ==
  [][/\ last'.op \in {"resolved", "rejected"} =>
          \A i \in 1..Len(inflight) :
            inflight' = RemoveAt(inflight, i) =>
              LET wrote == IF last'.op = "resolved" /\ last'.got \in {"json", "pair"}
                             THEN result' ELSE error'
              IN  (wrote # JSNull /\ Truthy(image')) =>
                    inflight[i].data = SplitComma1(image'.s)
     /\ image' # image => result' = JSNull /\ error' = JSNull]_vars

\* C14: in no reachable state are the error banner (`error &&`) and the
\* result panel (`result &&`) both rendered.
C14_AsStated == ~(Truthy(error) /\ Truthy(result))

\* C15: within one mounted component the presentation state changes only
\* along the listed transitions, each by its own cause: an intake that
\* completes, a click on analyze with an image and a non-blank key, or the
\* call coming back (success with a parseable payload; failed on a throw, an
\* empty payload or a parse failure).  In particular an intake that completes
\* while busy leaves the state busy.
C15_AsStated ==
  [][last'.op # "mount" =>
       LET from == PresentationState
           to == PresentationState'
       IN  to # from =>
             \/ /\ from = "idle-no-image"
                /\ to = "idle-has-image"
                /\ last'.op = "onloadend"
             \/ /\ from \in {"idle-has-image", "success", "failed"}
                /\ to = "busy"
                /\ last'.op = "analyzeImage"
                /\ Truthy(image)
                /\ Trim(apiKey) # <<>>
             \/ /\ from = "busy"
                /\ to = "success"
                /\ last'.op = "resolved"
                /\ last'.got \in {"json", "pair"}
             \/ /\ from = "busy"
                /\ to = "failed"
                /\ \/ last'.op = "rejected"
                   \/ last'.op = "resolved" /\ last'.got \in {"notext", "notjson"}
             \/ /\ from \in {"success", "failed"}
                /\ to = "idle-has-image"
                /\ last'.op = "onloadend"]_vars

\* C16: within one mounted component result changes in two places only: a
\* completed image read sets it to null and a call that came back with a
\* parseable text sets it to the parsed value.  A credential edit, a file
\* choice, analyzeImage up to its await (alert, no image, or dispatch), a
\* rejected call and a call that came back with no text or with a text that
\* does not parse all leave it as it was.
C16_ResultFrame ==
  [][last'.op # "mount" =>
       /\ result' # result => last'.op \in {"onloadend", "resolved"}
       /\ last'.op = "onloadend" => result' = JSNull
       /\ (last'.op = "resolved" /\ last'.got \in {"json", "pair"}) =>
            \E text \in Texts, engine \in Engines :
              /\ ~TryResponse(text, engine).threw
              /\ result' = TryResponse(text, engine).value
       /\ (last'.op = "resolved" /\ last'.got \in {"notext", "notjson"}) =>
            result' = result
       /\ last'.op \in {"saveApiKey", "handleImageChange", "analyzeImage",
                        "rejected"} => result' = result]_vars

\* a re-analysis of the same image is in flight and the result of the
\* analysis before it is still shown
C16_Witness ==
  /\ last.op = "analyzeImage"
  /\ loading
  /\ Truthy(result)
  /\ Truthy(image)
  /\ Len(inflight) = 1
  /\ inflight[1].data = SplitComma1(image.s)
  /\ inflight[1].before = result

=============================================================================
